---- MODULE Spec2Model ----
(***************************************************************************)
(* A model of the three-level configuration cascade of lutris/config.py:   *)
(* class LutrisConfig, its raw layers (system_level, runner_level,         *)
(* game_level), its cascaded views (system_config, runner_config,          *)
(* game_config), its raw-section shortcuts and the YAML resources on disk. *)
(*                                                                         *)
(* A Python dict is a TLA+ function whose DOMAIN is the set of its keys.   *)
(* An option value is a record: a scalar (a token naming the Python value) *)
(* or a mapping (the "env" option).  Python's truthiness is Truthy.        *)
(***************************************************************************)
EXTENDS Naturals, Sequences, FiniteSets, TLC

\* storage: the YAML resources; cfg: the LutrisConfig objects; last: the
\* record of the last call; edits: the number of edits made through each
\* object; pending: the (section, option) pairs edited through each object
\* since it last loaded its layers; option_list: the option list the
\* defaults provider hands out; clock: the time time.time() returns,
\* counted in half seconds.
VARIABLES storage, cfg, last, edits, pending, option_list, clock

vars == <<storage, cfg, last, edits, pending, option_list, clock>>

---------------------------------------------------------------------------
(* Bounds of the model. *)

MaxEdits == 1

\* The longest option list the defaults provider hands out.
MaxOptions == 2

\* The last half second the clock reaches.
MaxClock == 5

---------------------------------------------------------------------------
(* Python values. *)

NONE == "None"

EmptyDict == [k \in {} |-> ""]

Scalar(x) == [kind |-> "scalar", val |-> x, map |-> EmptyDict]

Mapping(m) == [kind |-> "mapping", val |-> "", map |-> m]

FalsyScalars == {"False", "0", "", NONE}

\* bool(value) of Python for an option value.
Truthy(v) == IF v.kind = "mapping" THEN DOMAIN v.map # {} ELSE v.val \notin FalsyScalars

\* bool(d) of Python for a dict.
DictTruthy(d) == DOMAIN d # {}

\* dict.update: d.update(e), as a value.
Update(d, e) == e @@ d

\* d[k] = v
SetKey(d, k, v) == (k :> v) @@ d

\* del d[k]
DelKey(d, k) == [x \in DOMAIN d \ {k} |-> d[x]]

---------------------------------------------------------------------------
(* ConfigLevel and the identifiers. *)

GAME == "game"

RUNNER == "runner"

SYSTEM == "system"

ConfigLevel == {GAME, RUNNER, SYSTEM}

RunnerSlug == "duckstation"

GameConfigId == "quake-1700000000"

Instances == {1, 2}

---------------------------------------------------------------------------
(* The option lists: the defaults provider. *)

Opt(name) == [option |-> name, has_default |-> FALSE, callable |-> FALSE, raises |-> FALSE, default |-> Scalar(NONE)]

OptDefault(name, v) == [option |-> name, has_default |-> TRUE, callable |-> FALSE, raises |-> FALSE, default |-> Scalar(v)]

\* sysoptions.system_options
system_options == << OptDefault("vsync", "True"), Opt("res"), Opt("env") >>

\* sysoptions.with_runner_overrides(runner_slug)
with_runner_overrides(runner_slug) == system_options

\* duckstation.runner_options
duckstation_runner_options ==
    << OptDefault("fullscreen", "True"),
       OptDefault("nofullscreen", "False"),
       OptDefault("nogui", "True"),
       OptDefault("fastboot", "False"),
       OptDefault("slowboot", "False"),
       OptDefault("nocontroller", "False"),
       OptDefault("settings", "settings.ini") >>

\* duckstation.game_options
duckstation_game_options == << Opt("main_file") >>

\* dict((opt["option"], opt) for opt in options): the last duplicate wins.
OptionsToDict(options) ==
    [n \in {options[j].option : j \in DOMAIN options} |->
        options[CHOOSE j \in DOMAIN options :
                    /\ options[j].option = n
                    /\ \A l \in DOMAIN options : options[l].option = n => l <= j]]

\* The three dicts options_as_dict builds, each computed once.
SystemOptionsDict == OptionsToDict(system_options)

RunnerOptionsDict == OptionsToDict(duckstation_runner_options)

GameOptionsDict == OptionsToDict(duckstation_game_options)

OverriddenOptionsDict == OptionsToDict(with_runner_overrides(RunnerSlug))

options_as_dict(options_type, runner_slug) ==
    IF options_type = SYSTEM
    THEN (IF runner_slug = NONE THEN SystemOptionsDict
          ELSE IF runner_slug = RunnerSlug THEN OverriddenOptionsDict
          ELSE OptionsToDict(with_runner_overrides(runner_slug)))
    ELSE IF runner_slug = NONE THEN EmptyDict
    ELSE IF runner_slug # RunnerSlug THEN EmptyDict
    ELSE IF options_type = RUNNER THEN RunnerOptionsDict
    ELSE GameOptionsDict

\* An option descriptor whose default is a callable: default is the value
\* the call returns, raises tells that the call raises instead.
OptCallable(name, v, raises) == [option |-> name, has_default |-> TRUE, callable |-> TRUE, raises |-> raises, default |-> Scalar(v)]

\* Variant of the loop of get_defaults: a default that raises ends the loop
\* with nothing collected.
Defaults_RaiseAborts(options_dict) ==
    IF \E o \in DOMAIN options_dict :
          options_dict[o].has_default /\ options_dict[o].callable /\ options_dict[o].raises
    THEN EmptyDict
    ELSE [o \in {x \in DOMAIN options_dict : options_dict[x].has_default} |-> options_dict[o].default]

\* The loop of get_defaults over options_dict.
Defaults(options_dict) ==
    LET kept == {o \in DOMAIN options_dict :
                    /\ options_dict[o].has_default
                    /\ ~(options_dict[o].callable /\ options_dict[o].raises)}
    IN [o \in kept |-> options_dict[o].default]

get_defaults(options_type, runner_slug) == Defaults(options_as_dict(options_type, runner_slug))

---------------------------------------------------------------------------
(* Durable storage: a function from the paths of the existing files to    *)
(* their documents.                                                        *)

system_config_path == "system.yml"

runner_config_path(runner_slug) == IF runner_slug = NONE THEN NONE ELSE "runners/" \o runner_slug \o ".yml"

game_config_path(game_config_id) == IF game_config_id = NONE THEN NONE ELSE "games/" \o game_config_id \o ".yml"

path_exists(st, path) == path # NONE /\ path \in DOMAIN st

\* read_yaml_from_file: a missing file reads as an empty mapping.
read_yaml_from_file(st, path) == IF path_exists(st, path) THEN st[path] ELSE EmptyDict

\* write_yaml_to_file: the file is replaced by the document.
write_yaml_to_file(st, config, path) == SetKey(st, path, config)

config_path(c, config_type) ==
    IF config_type = GAME THEN game_config_path(c.game_config_id)
    ELSE IF config_type = RUNNER THEN runner_config_path(c.runner_slug)
    ELSE system_config_path

\* get_config for a config_type of ConfigLevel: the document read.
get_config(st, c, config_type) == read_yaml_from_file(st, config_path(c, config_type))

\* Variant of the last branch of get_config: no config_type is refused.
InvalidConfigType_Never(config_type) == FALSE

\* The last branch of get_config: raise ValueError.
InvalidConfigType(config_type) == config_type \notin ConfigLevel

\* A call of get_config: [raised, reads, data], reads being the paths handed
\* to read_yaml_from_file.
get_config_call(st, c, config_type) ==
    IF InvalidConfigType(config_type)
    THEN [raised |-> "ValueError", reads |-> {}, data |-> EmptyDict]
    ELSE [raised |-> NONE,
          reads |-> {config_path(c, config_type)},
          data |-> get_config(st, c, config_type)]

---------------------------------------------------------------------------
(* The module-level functions that create game resources. *)

\* The clock counts half seconds: time.time() is now / TicksPerSecond.
TicksPerSecond == 2

\* int(time.time()): the fraction of the second is cut off.
IntTime(now) == now \div TicksPerSecond

\* f"{game_slug}-{timestamp}"
make_game_config_id(game_slug, timestamp) == game_slug \o "-" \o ToString(timestamp)

\* write_game_config at the time now: [st, id, raised]
write_game_config(st, game_slug, config, now) ==
    LET timestamp == IntTime(now)
        configpath == make_game_config_id(game_slug, timestamp)
    IN [st |-> write_yaml_to_file(st, config, game_config_path(configpath)),
        id |-> configpath,
        raised |-> NONE]

\* shutil.copyfile(src, dest): [st, raised]
copyfile(st, src, dest) ==
    IF src \notin DOMAIN st THEN [st |-> st, raised |-> "FileNotFoundError"]
    ELSE IF src = dest THEN [st |-> st, raised |-> "SameFileError"]
    ELSE [st |-> SetKey(st, dest, st[src]), raised |-> NONE]

\* duplicate_game_config at the time now: [st, id, raised]
duplicate_game_config(st, game_slug, source_config_id, now) ==
    LET timestamp == IntTime(now)
        new_config_id == make_game_config_id(game_slug, timestamp)
        r == copyfile(st, game_config_path(source_config_id), game_config_path(new_config_id))
    IN [st |-> r.st,
        id |-> IF r.raised = NONE THEN new_config_id ELSE NONE,
        raised |-> r.raised]

---------------------------------------------------------------------------
(* A LutrisConfig instance. *)

\* Variant of the inference of the level: the runner identifier is looked at
\* before the game-config identifier.
InferLevel_RunnerFirst(runner_slug, game_config_id, level) ==
    IF level # NONE THEN level
    ELSE IF runner_slug # NONE THEN RUNNER
    ELSE IF game_config_id # NONE THEN GAME
    ELSE SYSTEM

\* level or (GAME if game_config_id else RUNNER if runner_slug else SYSTEM)
InferLevel(runner_slug, game_config_id, level) ==
    IF level # NONE THEN level
    ELSE IF game_config_id # NONE THEN GAME
    ELSE IF runner_slug # NONE THEN RUNNER
    ELSE SYSTEM

\* The attributes assigned at the top of __init__, before initialize_config.
\* env_ref names the raw layer whose system section holds, as its "env", the
\* very dict object that system_config["env"] is: "system", "runner" or
\* "game"; "own" when no layer holds that object.
NewConfig(runner_slug, game_config_id, level) ==
    [ alive |-> TRUE,
      env_ref |-> "own",
      game_config_id |-> game_config_id,
      runner_slug |-> runner_slug,
      level |-> InferLevel(runner_slug, game_config_id, level),
      game_level |-> EmptyDict,
      runner_level |-> EmptyDict,
      system_level |-> EmptyDict,
      game_config |-> EmptyDict,
      runner_config |-> EmptyDict,
      system_config |-> EmptyDict,
      raw_game_config |-> EmptyDict,
      raw_runner_config |-> EmptyDict,
      raw_system_config |-> EmptyDict,
      raw_config |-> EmptyDict ]

\* No object: never constructed, or the constructor raised.
NoConfig == [NewConfig(NONE, NONE, NONE) EXCEPT !.alive = FALSE]

\* if d.get(key) is None: d[key] = {}
DefaultSection(d, key) == IF key \in DOMAIN d THEN d ELSE SetKey(d, key, EmptyDict)

\* The raw layer that holds the dict object system_config["env"] refers to.
\* ref is "system", "runner" or "game" when system_config["env"] is the very
\* object stored as that layer's system section "env"; "own" otherwise.
WriteThrough(c, ref, env) ==
    IF ref = SYSTEM THEN [c EXCEPT !.system_level[SYSTEM] = SetKey(@, "env", env)]
    ELSE IF ref = RUNNER THEN [c EXCEPT !.runner_level[SYSTEM] = SetKey(@, "env", env)]
    ELSE IF ref = GAME THEN [c EXCEPT !.game_level[SYSTEM] = SetKey(@, "env", env)]
    ELSE c

\* merge_env on the pair (instance, ref): existing_env.update(new_env) changes
\* the object in place, so the layer that shares it changes with it.
merge_env(s, new_env) ==
    IF ~Truthy(new_env) THEN s
    ELSE LET had == "env" \in DOMAIN s.c.system_config
             existing_env == IF had THEN s.c.system_config["env"] ELSE Mapping(EmptyDict)
             merged == Mapping(Update(existing_env.map, new_env.map))
             ref == IF had THEN s.ref ELSE "own"
             c1 == WriteThrough(s.c, ref, merged)
         IN [c |-> [c1 EXCEPT !.system_config = SetKey(@, "env", merged)], ref |-> ref]

\* Variant of merge_to_system_config: the options system_config has already
\* are kept, config only adds the options it does not have.
merge_to_system_config_Under(s, config, layer) ==
    IF ~DictTruthy(config) THEN s
    ELSE LET s1 == IF "env" \in DOMAIN config THEN merge_env(s, config["env"]) ELSE s
         IN [c |-> [s1.c EXCEPT !.system_config = Update(config, @)],
             ref |-> s1.ref]

\* merge_to_system_config(config), config being the system section of layer.
merge_to_system_config(s, config, layer) ==
    IF ~DictTruthy(config) THEN s
    ELSE LET s1 == IF "env" \in DOMAIN config THEN merge_env(s, config["env"]) ELSE s
         IN [c |-> [s1.c EXCEPT !.system_config = Update(@, config)],
             ref |-> IF "env" \in DOMAIN config THEN layer ELSE s1.ref]

CascadeSystem(c) ==
    LET sl == DefaultSection(c.system_level, SYSTEM)
        sc == Update(get_defaults(SYSTEM, c.runner_slug), sl[SYSTEM])
    IN [c |-> [c EXCEPT !.system_level = sl, !.system_config = sc],
        ref |-> IF "env" \in DOMAIN sl[SYSTEM] THEN SYSTEM ELSE "own"]

CascadeRunner(s) ==
    IF s.c.level \in {RUNNER, GAME} /\ s.c.runner_slug # NONE
    THEN LET rl == DefaultSection(DefaultSection(s.c.runner_level, s.c.runner_slug), SYSTEM)
             rc == Update(get_defaults(RUNNER, s.c.runner_slug), rl[s.c.runner_slug])
             s1 == [s EXCEPT !.c.runner_level = rl, !.c.runner_config = rc]
         IN merge_to_system_config(s1, s1.c.runner_level[SYSTEM], RUNNER)
    ELSE s

\* Variant of the Game-level step: the game layer's runner section is
\* merged under the runner view instead of over it.
CascadeGame_RunnerWins(s) ==
    IF s.c.level = GAME /\ s.c.runner_slug # NONE
    THEN LET gl == DefaultSection(DefaultSection(DefaultSection(s.c.game_level, GAME), s.c.runner_slug), SYSTEM)
             gc == Update(get_defaults(GAME, s.c.runner_slug), gl[GAME])
             rc == Update(gl[s.c.runner_slug], s.c.runner_config)
             s1 == [s EXCEPT !.c.game_level = gl, !.c.game_config = gc, !.c.runner_config = rc]
         IN merge_to_system_config(s1, s1.c.game_level[SYSTEM], GAME)
    ELSE s

CascadeGame(s) ==
    IF s.c.level = GAME /\ s.c.runner_slug # NONE
    THEN LET gl == DefaultSection(DefaultSection(DefaultSection(s.c.game_level, GAME), s.c.runner_slug), SYSTEM)
             gc == Update(get_defaults(GAME, s.c.runner_slug), gl[GAME])
             rc == Update(s.c.runner_config, gl[s.c.runner_slug])
             s1 == [s EXCEPT !.c.game_level = gl, !.c.game_config = gc, !.c.runner_config = rc]
         IN merge_to_system_config(s1, s1.c.game_level[SYSTEM], GAME)
    ELSE s

update_cascaded_config(c) ==
    LET s == CascadeGame(CascadeRunner(CascadeSystem(c)))
    IN [s.c EXCEPT !.env_ref = s.ref]

\* update_raw_config: a missing key raises KeyError where the code indexes.
update_raw_config(c) ==
    LET raw_config == IF c.level = GAME THEN c.game_level
                      ELSE IF c.level = RUNNER THEN c.runner_level
                      ELSE c.system_level
    IN IF SYSTEM \notin DOMAIN raw_config THEN [c |-> c, raised |-> "KeyError"]
       ELSE LET c1 == [c EXCEPT !.raw_system_config = raw_config[SYSTEM]]
            IN IF c.level \in {RUNNER, GAME} /\ c.runner_slug \notin DOMAIN raw_config
               THEN [c |-> c1, raised |-> "KeyError"]
               ELSE LET c2 == IF c.level \in {RUNNER, GAME}
                              THEN [c1 EXCEPT !.raw_runner_config = raw_config[c.runner_slug]]
                              ELSE c1
                    IN IF c.level = GAME /\ GAME \notin DOMAIN raw_config
                       THEN [c |-> c2, raised |-> "KeyError"]
                       ELSE [c |-> [(IF c.level = GAME
                                     THEN [c2 EXCEPT !.raw_game_config = raw_config[GAME]]
                                     ELSE c2) EXCEPT !.raw_config = raw_config],
                             raised |-> NONE]

\* initialize_config: each layer is updated (dict.update) with its file.
LoadLayers(st, c) ==
    [c EXCEPT !.game_level = Update(@, get_config(st, c, GAME)),
              !.runner_level = Update(@, get_config(st, c, RUNNER)),
              !.system_level = Update(@, get_config(st, c, SYSTEM))]

initialize_config(st, c) == update_raw_config(update_cascaded_config(LoadLayers(st, c)))

\* LutrisConfig(runner_slug, game_config_id, level)
Init__(st, runner_slug, game_config_id, level) ==
    initialize_config(st, NewConfig(runner_slug, game_config_id, level))

---------------------------------------------------------------------------
(* save and remove. *)

\* Variants of the filter of save(): the condition inverted, the filter
\* left out, and the filter applied to the options inside the sections too.
FilterFalsy_Inverted(config) == [k \in {x \in DOMAIN config : ~DictTruthy(config[x])} |-> config[k]]

FilterFalsy_KeepAll(config) == config

FilterFalsy_Deep(config) ==
    LET strip(section) == [o \in {x \in DOMAIN section : Truthy(section[x])} |-> section[o]]
    IN [k \in {x \in DOMAIN config : DictTruthy(strip(config[x]))} |-> strip(config[k])]

\* {key: value for key, value in config.items() if value}
FilterFalsy(config) == [k \in {x \in DOMAIN config : DictTruthy(config[x])} |-> config[k]]

\* Variant of the layer save() selects: the system section is taken from
\* the cascaded view system_config.
SaveLayer_Cascaded(c) ==
    SetKey(IF c.level = SYSTEM THEN c.system_level
           ELSE IF c.level = RUNNER THEN c.runner_level
           ELSE c.game_level,
           SYSTEM, c.system_config)

\* The raw layer save() selects by level.
SaveLayer(c) ==
    IF c.level = SYSTEM THEN c.system_level
    ELSE IF c.level = RUNNER THEN c.runner_level
    ELSE c.game_level

\* Variant of the path save() selects: the system resource at every level.
SavePath_System(c) == system_config_path

\* The path save() selects by level.
SavePath(c) == config_path(c, c.level)

\* Variant of the branch of save() for a path that is None: it reloads.
SaveUnresolved_Reloads(st, c) ==
    LET r == initialize_config(st, c)
    IN [st |-> st, c |-> r.c, raised |-> r.raised, wrote |-> FALSE]

\* The branch of save() for a path that is None: a warning, then return.
SaveUnresolved(st, c) == [st |-> st, c |-> c, raised |-> NONE, wrote |-> FALSE]

\* Variant of the document save() writes: the stored document is read first
\* and the filtered raw layer is merged into it, option by option.
SavedDocument_MergedWithStorage(st, c) ==
    LET old == read_yaml_from_file(st, SavePath(c))
        new == FilterFalsy(SaveLayer(c))
        section(d, key) == IF key \in DOMAIN d THEN d[key] ELSE EmptyDict
    IN [key \in DOMAIN old \cup DOMAIN new |-> Update(section(old, key), section(new, key))]

\* The document save() writes: the filtered raw layer; storage is not read.
SavedDocument(st, c) == FilterFalsy(SaveLayer(c))

\* save(): [st, c, raised, wrote]
save(st, c) ==
    IF c.level \notin ConfigLevel
    THEN [st |-> st, c |-> c, raised |-> "ValueError", wrote |-> FALSE]
    ELSE LET config_path_ == SavePath(c)
         IN IF config_path_ = NONE
            THEN SaveUnresolved(st, c)
            ELSE LET st1 == write_yaml_to_file(st, SavedDocument(st, c), config_path_)
                     r == initialize_config(st1, c)
                 IN [st |-> st1, c |-> r.c, raised |-> r.raised, wrote |-> TRUE]

\* Variant of remove(): the runner resource is deleted with the game resource.
remove_WithRunner(st, c) ==
    IF ~path_exists(st, game_config_path(c.game_config_id)) THEN [st |-> st, c |-> c]
    ELSE [st |-> DelKey(DelKey(st, game_config_path(c.game_config_id)), runner_config_path(c.runner_slug)),
          c |-> c]

\* Variant of remove(): the raw game layer is emptied with the deletion.
remove_ForgetsGameLayer(st, c) ==
    IF ~path_exists(st, game_config_path(c.game_config_id)) THEN [st |-> st, c |-> c]
    ELSE [st |-> DelKey(st, game_config_path(c.game_config_id)),
          c |-> [c EXCEPT !.game_level = EmptyDict]]

\* remove(): [st, c]; no attribute of the object is assigned.
remove(st, c) ==
    IF ~path_exists(st, game_config_path(c.game_config_id)) THEN [st |-> st, c |-> c]
    ELSE [st |-> DelKey(st, game_config_path(c.game_config_id)), c |-> c]

---------------------------------------------------------------------------
(* What a caller does to the raw-section shortcuts. *)

\* The shortcuts update_raw_config sets at the level of c.
Shortcuts(c) ==
    {SYSTEM} \cup (IF c.level \in {RUNNER, GAME} THEN {RUNNER} ELSE {})
             \cup (IF c.level = GAME THEN {GAME} ELSE {})

\* The key of raw_config a shortcut refers to.
SectionKey(c, shortcut) == IF shortcut = RUNNER THEN c.runner_slug ELSE shortcut

ShortcutValue(c, shortcut) ==
    IF shortcut = SYSTEM THEN c.raw_system_config
    ELSE IF shortcut = RUNNER THEN c.raw_runner_config
    ELSE c.raw_game_config

\* The shortcut, the section of the raw layer and raw_config are one object:
\* a change through the shortcut is a change of all three.
WriteSection(c, shortcut, section) ==
    LET key == SectionKey(c, shortcut)
        c1 == IF c.level = GAME THEN [c EXCEPT !.game_level = SetKey(@, key, section)]
              ELSE IF c.level = RUNNER THEN [c EXCEPT !.runner_level = SetKey(@, key, section)]
              ELSE [c EXCEPT !.system_level = SetKey(@, key, section)]
        c2 == [c1 EXCEPT !.raw_config = SetKey(@, key, section)]
    IN IF shortcut = SYSTEM THEN [c2 EXCEPT !.raw_system_config = section]
       ELSE IF shortcut = RUNNER THEN [c2 EXCEPT !.raw_runner_config = section]
       ELSE [c2 EXCEPT !.raw_game_config = section]

\* The raw layer update_raw_config selected for the shortcuts.
RawLevel(c) == IF c.level \in {GAME, RUNNER} THEN c.level ELSE SYSTEM

\* An assignment to raw_system_config["env"], or its deletion, takes the
\* dict object out of the raw layer: when system_config["env"] is that
\* object, no layer holds it any more.
Detach(c, op, shortcut, section) ==
    IF /\ shortcut = SYSTEM
       /\ c.env_ref = RawLevel(c)
       /\ \/ op = "setenv"
          \/ op = "del" /\ "env" \notin DOMAIN section
    THEN [c EXCEPT !.env_ref = "own"]
    ELSE c

\* raw_config and raw_system_config are the objects of the selected raw
\* layer: a change of the layer made in place is seen through them.
SeenThroughShortcuts(c) ==
    LET layer == IF RawLevel(c) = GAME THEN c.game_level
                 ELSE IF RawLevel(c) = RUNNER THEN c.runner_level
                 ELSE c.system_level
    IN [c EXCEPT !.raw_config = layer, !.raw_system_config = layer[SYSTEM]]

\* A call of merge_env(new_env) by a caller.
merge_env_call(c, new_env) ==
    LET s == merge_env([c |-> c, ref |-> c.env_ref], new_env)
    IN SeenThroughShortcuts([s.c EXCEPT !.env_ref = s.ref])

\* A call of merge_to_system_config(config) by a caller: an env mapping in
\* config is the caller's object, which no layer holds.
merge_to_system_config_call(c, config) ==
    LET s == merge_to_system_config([c |-> c, ref |-> c.env_ref], config, "own")
    IN SeenThroughShortcuts([s.c EXCEPT !.env_ref = s.ref])

\* The (section, option) pairs of the selected raw layer that differ
\* between c and d.
ChangedEntries(c, d) ==
    LET entries(x) == UNION {{<<k, o, x.raw_config[k][o]>> : o \in DOMAIN x.raw_config[k]} : k \in DOMAIN x.raw_config}
    IN {<<e[1], e[2]>> : e \in (entries(c) \ entries(d)) \cup (entries(d) \ entries(c))}

\* The options a caller sets in each section, and the values it gives them.
SectionOptions(shortcut) ==
    IF shortcut = SYSTEM THEN {"vsync", "res"}
    ELSE IF shortcut = RUNNER THEN {"fullscreen"}
    ELSE {"main_file"}

OptionValues(option) ==
    IF option = "res" THEN {"1080p", "0"}
    ELSE IF option = "main_file" THEN {"rom.bin", ""}
    ELSE {"True", "False"}

A1 == [k \in {"A"} |-> "1"]

A2 == [k \in {"A"} |-> "2"]

B2 == [k \in {"B"} |-> "2"]

EnvChoices == {A2, EmptyDict}

\* The mappings a caller hands to merge_env and to merge_to_system_config.
MergedEnvs == {EmptyDict, A2}

MergedConfigs == {EmptyDict, ("vsync" :> Scalar("False")), ("env" :> Mapping(A2))}

---------------------------------------------------------------------------
(* The state machine. *)

SystemDoc == [s \in {SYSTEM} |-> [o \in {"env"} |-> Mapping(A1)]]

RunnerDoc ==
    [s \in {SYSTEM, RunnerSlug} |->
        IF s = SYSTEM THEN [o \in {"env"} |-> Mapping(B2)]
        ELSE [o \in {"fullscreen"} |-> Scalar("False")]]

GameDoc ==
    [s \in {GAME, RunnerSlug} |->
        IF s = GAME THEN [o \in {"main_file"} |-> Scalar("rom.bin")]
        ELSE [o \in {"fullscreen"} |-> Scalar("True")]]

InitialFiles ==
    [p \in {system_config_path, runner_config_path(RunnerSlug), game_config_path(GameConfigId)} |->
        IF p = system_config_path THEN SystemDoc
        ELSE IF p = runner_config_path(RunnerSlug) THEN RunnerDoc
        ELSE GameDoc]

\* Nothing; the system file; the system and runner files; all three files.
InitialStorages ==
    {[p \in P |-> InitialFiles[p]] :
        P \in {{}, {system_config_path},
               {system_config_path, runner_config_path(RunnerSlug)},
               DOMAIN InitialFiles}}

\* The record of the last call: the operation, the object, what it raised,
\* whether it changed storage, the arguments of the constructor (level is the
\* level argument), the level __init__ assigned, the paths it read, the
\* mapping it returned, the identifier it returned and, for a save() that
\* wrote, the document its resource held before and whether the call before
\* it was a remove() of the same object that deleted the resource.
Last(op, i, c, raised, wrote, level) ==
    [op |-> op, i |-> i, raised |-> raised, wrote |-> wrote,
     runner_slug |-> c.runner_slug, game_config_id |-> c.game_config_id, level |-> level,
     assigned |-> c.level, reads |-> {}, result |-> EmptyDict, new_id |-> NONE,
     overwrote |-> EmptyDict, after_remove |-> FALSE]

Init ==
    /\ storage \in InitialStorages
    /\ cfg = [i \in Instances |-> NoConfig]
    /\ last = Last("start", 0, NoConfig, NONE, FALSE, NONE)
    /\ edits = [i \in Instances |-> 0]
    /\ pending = [i \in Instances |-> {}]
    /\ option_list = << >>
    /\ clock = 0

Construct(i, runner_slug, game_config_id, level) ==
    LET r == Init__(storage, runner_slug, game_config_id, level)
    IN /\ cfg' = [cfg EXCEPT ![i] = IF r.raised = NONE THEN r.c ELSE NoConfig]
       /\ last' = Last("construct", i, r.c, r.raised, FALSE, level)
       /\ pending' = [pending EXCEPT ![i] = {}]
       /\ UNCHANGED <<storage, edits, option_list, clock>>

\* The (section, option) pairs that differ between the section a shortcut
\* refers to and the section an edit makes of it.
ChangedOptions(c, shortcut, section) ==
    LET old == ShortcutValue(c, shortcut)
    IN {<<SectionKey(c, shortcut), k>> :
           k \in {x \in DOMAIN old \cup DOMAIN section :
                     \/ x \notin DOMAIN old
                     \/ x \notin DOMAIN section
                     \/ old[x] # section[x]}}

Edit(i, op, shortcut, section) ==
    /\ cfg[i].alive
    /\ edits[i] < MaxEdits
    /\ shortcut \in Shortcuts(cfg[i])
    /\ cfg' = [cfg EXCEPT ![i] = Detach(WriteSection(@, shortcut, section), op, shortcut, section)]
    /\ last' = Last(op, i, cfg[i], NONE, FALSE, cfg[i].level)
    /\ edits' = [edits EXCEPT ![i] = @ + 1]
    /\ pending' = [pending EXCEPT ![i] = @ \cup ChangedOptions(cfg[i], shortcut, section)]
    /\ UNCHANGED <<storage, option_list, clock>>

\* raw_<shortcut>_config[option] = value
SetOption(i, shortcut, option, value) ==
    /\ option \in SectionOptions(shortcut)
    /\ value \in OptionValues(option)
    /\ Edit(i, "set", shortcut, SetKey(ShortcutValue(cfg[i], shortcut), option, Scalar(value)))

\* del raw_<shortcut>_config[option]
DelOption(i, shortcut, option) ==
    /\ option \in DOMAIN ShortcutValue(cfg[i], shortcut)
    /\ Edit(i, "del", shortcut, DelKey(ShortcutValue(cfg[i], shortcut), option))

\* raw_system_config["env"] = env
SetEnv(i, env) ==
    Edit(i, "setenv", SYSTEM, SetKey(cfg[i].raw_system_config, "env", Mapping(env)))

\* A mutation of the object by a call of one of its merge methods.
Merge(i, op, c) ==
    /\ cfg[i].alive
    /\ edits[i] < MaxEdits
    /\ cfg' = [cfg EXCEPT ![i] = c]
    /\ last' = Last(op, i, cfg[i], NONE, FALSE, cfg[i].level)
    /\ edits' = [edits EXCEPT ![i] = @ + 1]
    /\ pending' = [pending EXCEPT ![i] = @ \cup ChangedEntries(cfg[i], c)]
    /\ UNCHANGED <<storage, option_list, clock>>

MergeEnv(i, new_env) == Merge(i, "merge_env", merge_env_call(cfg[i], Mapping(new_env)))

MergeToSystemConfig(i, config) ==
    Merge(i, "merge_to_system_config", merge_to_system_config_call(cfg[i], config))

Save(i) ==
    LET r == save(storage, cfg[i])
    IN /\ cfg[i].alive
       /\ storage' = r.st
       /\ cfg' = [cfg EXCEPT ![i] = r.c]
       /\ last' = [Last("save", i, cfg[i], r.raised, r.wrote, cfg[i].level)
                      EXCEPT !.overwrote = IF r.wrote
                                           THEN read_yaml_from_file(storage, SavePath(cfg[i]))
                                           ELSE EmptyDict,
                             !.after_remove = /\ r.wrote
                                              /\ last.op = "remove" /\ last.i = i /\ last.wrote]
       /\ pending' = [pending EXCEPT ![i] = IF r.wrote THEN {} ELSE @]
       /\ UNCHANGED <<edits, option_list, clock>>

Remove(i) ==
    LET r == remove(storage, cfg[i])
    IN /\ cfg[i].alive
       /\ storage' = r.st
       /\ cfg' = [cfg EXCEPT ![i] = r.c]
       /\ last' = Last("remove", i, cfg[i], NONE, r.st # storage, cfg[i].level)
       /\ UNCHANGED <<edits, pending, option_list, clock>>

InitializeConfig(i) ==
    LET r == initialize_config(storage, cfg[i])
    IN /\ cfg[i].alive
       /\ cfg' = [cfg EXCEPT ![i] = r.c]
       /\ last' = Last("initialize_config", i, cfg[i], r.raised, FALSE, cfg[i].level)
       /\ pending' = [pending EXCEPT ![i] = {}]
       /\ UNCHANGED <<storage, edits, option_list, clock>>

Step(i) ==
    \/ \E rs \in {NONE, RunnerSlug}, gid \in {NONE, GameConfigId} :
          Construct(i, rs, gid, NONE)
    \/ \E sc \in ConfigLevel, o \in {"vsync", "res", "fullscreen", "main_file"}, v \in {"True", "False", "1080p", "0", "rom.bin", ""} :
          SetOption(i, sc, o, v)
    \/ \E sc \in ConfigLevel, o \in {"vsync", "res", "fullscreen", "main_file", "env"} :
          DelOption(i, sc, o)
    \/ \E env \in EnvChoices : SetEnv(i, env)
    \/ \E new_env \in MergedEnvs : MergeEnv(i, new_env)
    \/ \E config \in MergedConfigs : MergeToSystemConfig(i, config)
    \/ Save(i)
    \/ Remove(i)
    \/ InitializeConfig(i)

\* One resolver.
Next == Step(1)

Spec == Init /\ [][Next]_vars

\* Two resolvers alive at the same time, each constructed once: the first of
\* the System level, the second of the System or the Runner level.
Concurrent(i) ==
    \/ \E rs \in {NONE, RunnerSlug} :
          /\ ~cfg[i].alive
          /\ i = 1 => rs = NONE
          /\ Construct(i, rs, NONE, NONE)
    \/ \E o \in {"vsync", "res"}, v \in {"False", "0"} : SetOption(i, SYSTEM, o, v)
    \/ \E o \in {"vsync", "res", "env"} : DelOption(i, SYSTEM, o)
    \/ \E new_env \in MergedEnvs : MergeEnv(i, new_env)
    \/ \E config \in MergedConfigs : MergeToSystemConfig(i, config)
    \/ Save(i)
    \/ InitializeConfig(i)

InitTwo ==
    /\ storage \in {st \in InitialStorages : DOMAIN st \subseteq {system_config_path}}
    /\ cfg = [i \in Instances |-> NoConfig]
    /\ last = Last("start", 0, NoConfig, NONE, FALSE, NONE)
    /\ edits = [i \in Instances |-> 0]
    /\ pending = [i \in Instances |-> {}]
    /\ option_list = << >>
    /\ clock = 0

NextTwo == \E i \in Instances : Concurrent(i)

SpecTwo == InitTwo /\ [][NextTwo]_vars

\* A Runner-level resolver (1) and a Game-level resolver (2) of the same
\* runner alive together, each constructed once.
Shared(i) ==
    \/ /\ ~cfg[i].alive
       /\ Construct(i, RunnerSlug, IF i = 1 THEN NONE ELSE GameConfigId, NONE)
    \/ \E env \in EnvChoices : SetEnv(i, env)
    \/ DelOption(i, SYSTEM, "env")
    \/ \E new_env \in MergedEnvs : MergeEnv(i, new_env)
    \/ \E config \in MergedConfigs : MergeToSystemConfig(i, config)
    \/ Save(i)
    \/ InitializeConfig(i)

InitShared ==
    /\ storage \in {st \in InitialStorages : runner_config_path(RunnerSlug) \in DOMAIN st}
    /\ cfg = [i \in Instances |-> NoConfig]
    /\ last = Last("start", 0, NoConfig, NONE, FALSE, NONE)
    /\ edits = [i \in Instances |-> 0]
    /\ pending = [i \in Instances |-> {}]
    /\ option_list = << >>
    /\ clock = 0

NextShared == \E i \in Instances : Shared(i)

SpecShared == InitShared /\ [][NextShared]_vars

\* One resolver constructed once with any combination of the identifiers and
\* of the level argument, a level outside ConfigLevel included, and every
\* method called on it.  A second game resource exists beside the resolver's.
InvalidLevel == "invalid"

OtherGameConfigId == "doom-1700000001"

OtherGameDoc == [s \in {GAME} |-> [o \in {"main_file"} |-> Scalar("doom.bin")]]

LevelStorages ==
    {(game_config_path(OtherGameConfigId) :> OtherGameDoc),
     (game_config_path(OtherGameConfigId) :> OtherGameDoc) @@ InitialFiles}

GetConfig(i, config_type) ==
    LET r == get_config_call(storage, cfg[i], config_type)
    IN /\ cfg[i].alive
       /\ last' = [Last("get_config", i, cfg[i], r.raised, FALSE, config_type)
                      EXCEPT !.reads = r.reads, !.result = r.data]
       /\ UNCHANGED <<storage, cfg, edits, pending, option_list, clock>>

GetDefaults(i, options_type) ==
    /\ cfg[i].alive
    /\ last' = [Last("get_defaults", i, cfg[i], NONE, FALSE, options_type)
                   EXCEPT !.result = get_defaults(options_type, cfg[i].runner_slug)]
    /\ UNCHANGED <<storage, cfg, edits, pending, option_list, clock>>

UpdateCascadedConfig(i) ==
    /\ cfg[i].alive
    /\ cfg' = [cfg EXCEPT ![i] = update_cascaded_config(@)]
    /\ last' = Last("update_cascaded_config", i, cfg[i], NONE, FALSE, cfg[i].level)
    /\ UNCHANGED <<storage, edits, pending, option_list, clock>>

UpdateRawConfig(i) ==
    LET r == update_raw_config(cfg[i])
    IN /\ cfg[i].alive
       /\ cfg' = [cfg EXCEPT ![i] = r.c]
       /\ last' = Last("update_raw_config", i, cfg[i], r.raised, FALSE, cfg[i].level)
       /\ UNCHANGED <<storage, edits, pending, option_list, clock>>

Levels(i) ==
    \/ \E rs \in {NONE, RunnerSlug}, gid \in {NONE, GameConfigId},
          level \in {NONE, InvalidLevel} \cup ConfigLevel :
          /\ ~cfg[i].alive
          /\ Construct(i, rs, gid, level)
    \/ \E config_type \in {InvalidLevel} \cup ConfigLevel : GetConfig(i, config_type)
    \/ \E options_type \in ConfigLevel : GetDefaults(i, options_type)
    \/ UpdateCascadedConfig(i)
    \/ UpdateRawConfig(i)
    \/ InitializeConfig(i)
    \/ SetOption(i, SYSTEM, "vsync", "False")
    \/ SetEnv(i, A2)
    \/ \E new_env \in MergedEnvs : MergeEnv(i, new_env)
    \/ \E config \in MergedConfigs : MergeToSystemConfig(i, config)
    \/ Save(i)
    \/ Remove(i)

InitLevels ==
    /\ storage \in LevelStorages
    /\ cfg = [i \in Instances |-> NoConfig]
    /\ last = Last("start", 0, NoConfig, NONE, FALSE, NONE)
    /\ edits = [i \in Instances |-> 0]
    /\ pending = [i \in Instances |-> {}]
    /\ option_list = << >>
    /\ clock = 0

NextLevels == Levels(1)

SpecLevels == InitLevels /\ [][NextLevels]_vars

\* get_defaults over the option lists a defaults provider may hand out:
\* options without default, with a literal default, with a callable default
\* that returns and with one that raises, names repeated or not.
Descriptors ==
    UNION {{Opt(n), OptDefault(n, "True"), OptCallable(n, "auto", FALSE), OptCallable(n, "auto", TRUE)} :
              n \in {"vsync", "res"}}

OptionLists == UNION {[1..n -> Descriptors] : n \in 0..MaxOptions}

\* get_defaults when options_as_dict is handed option_list.
GetDefaultsOfList ==
    /\ last' = [Last("get_defaults", 0, NoConfig, NONE, FALSE, SYSTEM)
                   EXCEPT !.result = Defaults(OptionsToDict(option_list))]
    /\ UNCHANGED <<storage, cfg, edits, pending, option_list, clock>>

InitDefaults ==
    /\ storage = EmptyDict
    /\ cfg = [i \in Instances |-> NoConfig]
    /\ last = Last("start", 0, NoConfig, NONE, FALSE, NONE)
    /\ edits = [i \in Instances |-> 0]
    /\ pending = [i \in Instances |-> {}]
    /\ option_list \in OptionLists
    /\ clock = 0

NextDefaults == GetDefaultsOfList

SpecDefaults == InitDefaults /\ [][NextDefaults]_vars

\* Game resources created by write_game_config and duplicate_game_config
\* while the clock goes from half second to half second.  A call reads the
\* time once and does not wait: the next call may read the same time.
GameSlugs == {"quake", "doom"}

GeneratedIds == {make_game_config_id(game_slug, IntTime(t)) : game_slug \in GameSlugs, t \in 0..MaxClock}

\* time.time() reaches the next half second.
Tick ==
    /\ clock < MaxClock
    /\ clock' = clock + 1
    /\ last' = Last("tick", 0, NoConfig, NONE, FALSE, NONE)
    /\ UNCHANGED <<storage, cfg, edits, pending, option_list>>

WriteGameConfig(game_slug, config) ==
    LET r == write_game_config(storage, game_slug, config, clock)
    IN /\ storage' = r.st
       /\ last' = [Last("write_game_config", 0, NoConfig, r.raised, TRUE, NONE)
                      EXCEPT !.new_id = r.id]
       /\ UNCHANGED <<cfg, edits, pending, option_list, clock>>

DuplicateGameConfig(game_slug, source_config_id) ==
    LET r == duplicate_game_config(storage, game_slug, source_config_id, clock)
    IN /\ storage' = r.st
       /\ last' = [Last("duplicate_game_config", 0, NoConfig, r.raised, r.raised = NONE, NONE)
                      EXCEPT !.new_id = r.id, !.game_config_id = source_config_id]
       /\ UNCHANGED <<cfg, edits, pending, option_list, clock>>

\* The clock starts at second 1; a game resource may be there from second 0.
InitIds ==
    /\ storage \in {EmptyDict, (game_config_path(make_game_config_id("quake", 0)) :> GameDoc)}
    /\ cfg = [i \in Instances |-> NoConfig]
    /\ last = Last("start", 0, NoConfig, NONE, FALSE, NONE)
    /\ edits = [i \in Instances |-> 0]
    /\ pending = [i \in Instances |-> {}]
    /\ option_list = << >>
    /\ clock = TicksPerSecond

NextIds ==
    \/ Tick
    \/ \E game_slug \in GameSlugs, config \in {GameDoc, OtherGameDoc} :
          WriteGameConfig(game_slug, config)
    \/ \E game_slug \in GameSlugs, source_config_id \in GeneratedIds :
          DuplicateGameConfig(game_slug, source_config_id)

SpecIds == InitIds /\ [][NextIds]_vars

\* One resolver constructed once, with any arguments, over resources whose
\* system sections define the same options with a value of their own each:
\* res together with env, vsync, all three, or nothing.
OwnValue(level, option) ==
    IF level = SYSTEM
    THEN (IF option = "res" THEN Scalar("480p") ELSE IF option = "vsync" THEN Scalar("False") ELSE Mapping(A1))
    ELSE IF level = RUNNER
    THEN (IF option = "res" THEN Scalar("720p") ELSE IF option = "vsync" THEN Scalar("0") ELSE Mapping(B2))
    ELSE (IF option = "res" THEN Scalar("1080p") ELSE IF option = "vsync" THEN Scalar("") ELSE Mapping(A2))

OptionSubsets == {{}, {"res", "env"}, {"vsync"}, {"res", "vsync", "env"}}

Absent == {"absent"}

\* The document of a level whose system section has the given options.
OwnDoc(level, options) ==
    IF options = {} THEN EmptyDict
    ELSE (SYSTEM :> [o \in options |-> OwnValue(level, o)])

\* The path of the resource of a level for the identifiers of the model.
OwnPath(level) ==
    IF level = GAME THEN game_config_path(GameConfigId)
    ELSE IF level = RUNNER THEN runner_config_path(RunnerSlug)
    ELSE system_config_path

PrecedenceStorages ==
    {LET present == {l \in ConfigLevel : f[l] # Absent}
     IN [p \in {OwnPath(l) : l \in present} |->
            LET l == CHOOSE x \in present : OwnPath(x) = p
            IN OwnDoc(l, f[l])] :
        f \in [ConfigLevel -> OptionSubsets \cup {Absent}]}

Overrides(i) ==
    \/ \E rs \in {NONE, RunnerSlug}, gid \in {NONE, GameConfigId},
          level \in {NONE, InvalidLevel} \cup ConfigLevel :
          /\ ~cfg[i].alive
          /\ Construct(i, rs, gid, level)
    \/ \E o \in {"vsync", "res"}, v \in {"True", "0"} : SetOption(i, SYSTEM, o, v)
    \/ UpdateCascadedConfig(i)
    \/ \E new_env \in MergedEnvs : MergeEnv(i, new_env)
    \/ \E config \in MergedConfigs : MergeToSystemConfig(i, config)
    \/ Save(i)
    \/ InitializeConfig(i)

InitOverrides ==
    /\ storage \in PrecedenceStorages
    /\ cfg = [i \in Instances |-> NoConfig]
    /\ last = Last("start", 0, NoConfig, NONE, FALSE, NONE)
    /\ edits = [i \in Instances |-> 0]
    /\ pending = [i \in Instances |-> {}]
    /\ option_list = << >>
    /\ clock = 0

NextOverrides == Overrides(1)

SpecOverrides == InitOverrides /\ [][NextOverrides]_vars

---------------------------------------------------------------------------
(* Vocabulary of the properties. *)

\* The views of instance i were just recomputed by update_cascaded_config.
Cascaded(i) ==
    /\ cfg[i].alive
    /\ last.i = i
    /\ last.raised = NONE
    /\ \/ last.op \in {"construct", "initialize_config"}
       \/ last.op = "save" /\ last.wrote

\* The step is a save() of instance i that wrote its resource.
SaveWrote(i) == last'.op = "save" /\ last'.wrote /\ last'.i = i

SectionOf(doc, key) == IF key \in DOMAIN doc THEN doc[key] ELSE EmptyDict

EnvOf(section) == IF "env" \in DOMAIN section THEN section["env"].map ELSE EmptyDict

Layer(c, level) ==
    IF level = GAME THEN c.game_level
    ELSE IF level = RUNNER THEN c.runner_level
    ELSE c.system_level

View(c, shortcut) ==
    IF shortcut = SYSTEM THEN c.system_config
    ELSE IF shortcut = RUNNER THEN c.runner_config
    ELSE c.game_config

\* The option entries of a raw layer or document: (section, option, value).
Entries(layer) == UNION {{<<s, k, layer[s][k]>> : k \in DOMAIN layer[s]} : s \in DOMAIN layer}

NoOptionValues(layer) == Entries(layer) = {}

\* view[k] is the value of the first of the mappings high, low, defaults that has k.
Precedence(view, high, low, defaults) ==
    /\ DOMAIN view = DOMAIN high \cup DOMAIN low \cup DOMAIN defaults
    /\ \A k \in DOMAIN view :
          view[k] = IF k \in DOMAIN high THEN high[k]
                    ELSE IF k \in DOMAIN low THEN low[k]
                    ELSE defaults[k]

---------------------------------------------------------------------------
(* C1: for a Runner- or Game-level resolver with a runner identifier,      *)
(* system_config["env"] is the key-wise merge, in increasing priority, of  *)
(* the env mappings of the system sections of the system resource, the     *)
(* runner resource and (at Game level) the game resource.  Stated for a    *)
(* resolver just constructed from storage.                                 *)
C1_EnvKeyWiseMerge ==
    \A i \in Instances :
        (/\ cfg[i].alive
         /\ last.op = "construct" /\ last.i = i
         /\ cfg[i].level \in {RUNNER, GAME}
         /\ cfg[i].runner_slug # NONE)
        => LET c == cfg[i]
               system_env == EnvOf(SectionOf(get_config(storage, c, SYSTEM), SYSTEM))
               runner_env == EnvOf(SectionOf(get_config(storage, c, RUNNER), SYSTEM))
               game_env == IF c.level = GAME
                           THEN EnvOf(SectionOf(get_config(storage, c, GAME), SYSTEM))
                           ELSE EmptyDict
           IN EnvOf(c.system_config) = Update(Update(system_env, runner_env), game_env)

(* C2: constructing with a game-config identifier and no runner identifier *)
(* completes without raising for every content of storage and yields a     *)
(* Game-level resolver whose raw shortcuts are mappings.                   *)
C2_GameIdWithoutRunnerConstructs ==
    (last.op = "construct" /\ last.game_config_id # NONE /\ last.runner_slug = NONE /\ last.level = NONE)
    => /\ last.raised = NONE
       /\ cfg[last.i].alive
       /\ cfg[last.i].level = GAME
       /\ cfg[last.i].raw_system_config = cfg[last.i].game_level[SYSTEM]
       /\ cfg[last.i].raw_game_config = cfg[last.i].game_level[GAME]

(* C3: after initialize_config, a level whose resource does not exist has  *)
(* a raw layer without option values, no error is raised, and at Game      *)
(* level with the game resource missing game_config is defaults(Game).     *)
C3_MissingResourceGivesEmptyLayer ==
    \A i \in Instances :
        (cfg[i].alive /\ last.op = "initialize_config" /\ last.i = i)
        => /\ last.raised = NONE
           /\ \A level \in ConfigLevel :
                 ~path_exists(storage, config_path(cfg[i], level))
                 => NoOptionValues(Layer(cfg[i], level))
           /\ (/\ cfg[i].level = GAME
               /\ cfg[i].runner_slug # NONE
               /\ ~path_exists(storage, config_path(cfg[i], GAME)))
              => cfg[i].game_config = get_defaults(GAME, cfg[i].runner_slug)

(* C4: after a save() that writes, the raw layer of the current level has  *)
(* the option entries of the document just written, and the three views    *)
(* are the cascade computed from the current contents of storage (the      *)
(* views of a resolver constructed now with the same arguments).           *)
C4_SaveReflectsStorage ==
    \A i \in Instances :
        (cfg[i].alive /\ last.op = "save" /\ last.wrote /\ last.i = i)
        => LET c == cfg[i]
               f == Init__(storage, c.runner_slug, c.game_config_id, c.level).c
           IN /\ Entries(SaveLayer(c)) = Entries(get_config(storage, c, c.level))
              /\ c.system_config = f.system_config
              /\ c.runner_config = f.runner_config
              /\ c.game_config = f.game_config

(* C5: round trip.  After a save() that writes, a resolver constructed     *)
(* with the same identifiers has, for every truthy option value held in a  *)
(* raw section of the saving resolver's level at the time of the save,     *)
(* that value in the corresponding cascaded view.                          *)
C5_RoundTrip ==
    [][\A i \in Instances :
          SaveWrote(i)
          => LET c == cfg[i]
                 fresh == Init__(storage', c.runner_slug, c.game_config_id, c.level)
             IN /\ fresh.raised = NONE
                /\ \A sh \in Shortcuts(c) : \A k \in DOMAIN ShortcutValue(c, sh) :
                      Truthy(ShortcutValue(c, sh)[k])
                      => /\ k \in DOMAIN View(fresh.c, sh)
                         /\ View(fresh.c, sh)[k] = ShortcutValue(c, sh)[k]]_vars

\* A Runner-level resolver saved vsync = True, set by an edit, in its system section.
C5_Witness ==
    /\ last.op = "save" /\ last.wrote /\ last.i = 1 /\ edits[1] = 1
    /\ cfg[1].level = RUNNER
    /\ "vsync" \in DOMAIN cfg[1].raw_system_config
    /\ cfg[1].raw_system_config["vsync"] = Scalar("True")
    /\ storage[runner_config_path(RunnerSlug)][SYSTEM]["vsync"] = Scalar("True")

(* C6: after a save() that writes, the resource of the current level holds *)
(* no entry of the raw layer whose value was falsy or empty at the time of *)
(* the save, and holds every entry whose value was truthy, unchanged.      *)
C6_SavedDocumentIsTruthyEntries ==
    [][\A i \in Instances :
          SaveWrote(i)
          => LET layer == SaveLayer(cfg[i])
                 doc == get_config(storage', cfg[i], cfg[i].level)
             IN /\ path_exists(storage', config_path(cfg[i], cfg[i].level))
                /\ DOMAIN doc \subseteq DOMAIN layer
                /\ \A key \in DOMAIN layer :
                      IF DictTruthy(layer[key])
                      THEN key \in DOMAIN doc /\ doc[key] = layer[key]
                      ELSE key \notin DOMAIN doc]_vars

\* A Game-level save: the empty game section held in memory is not in the
\* file, the non-empty runner section is.
C6_Witness ==
    /\ last.op = "save" /\ last.wrote /\ last.i = 1
    /\ cfg[1].level = GAME
    /\ cfg[1].game_level[GAME] = EmptyDict
    /\ GAME \notin DOMAIN storage[game_config_path(GameConfigId)]
    /\ cfg[1].game_level[RunnerSlug] # EmptyDict
    /\ storage[game_config_path(GameConfigId)][RunnerSlug] = cfg[1].game_level[RunnerSlug]

(* C7: at System level, where the default of vsync is True, a save() with  *)
(* vsync = False in the raw system section gives system_config[vsync] =    *)
(* False on the saving resolver and on a System-level resolver constructed *)
(* afterwards.                                                             *)
C7_FalsyOverrideSurvives ==
    [][\A i \in Instances :
          (/\ SaveWrote(i)
           /\ cfg[i].level = SYSTEM
           /\ "vsync" \in DOMAIN cfg[i].raw_system_config
           /\ cfg[i].raw_system_config["vsync"] = Scalar("False"))
          => LET fresh == Init__(storage', NONE, NONE, NONE)
             IN /\ get_defaults(SYSTEM, NONE)["vsync"] = Scalar("True")
                /\ cfg'[i].system_config["vsync"] = Scalar("False")
                /\ fresh.raised = NONE
                /\ fresh.c.level = SYSTEM
                /\ fresh.c.system_config["vsync"] = Scalar("False")]_vars

\* The system section {vsync: False} was saved from an empty storage.
C7_Witness ==
    /\ last.op = "save" /\ last.wrote /\ last.i = 1
    /\ cfg[1].level = SYSTEM
    /\ storage[system_config_path] = [s \in {SYSTEM} |-> [o \in {"vsync"} |-> Scalar("False")]]
    /\ cfg[1].system_config["vsync"] = Scalar("False")

\* The scalar options of a raw layer whose value is falsy: 0, False, "".
FalsyOptions(layer) == {e \in Entries(layer) : e[3].kind = "scalar" /\ ~Truthy(e[3])}

(* C8 as stated: an option of a raw section whose value is 0, False or ""  *)
(* is not in the document save() writes.                                   *)
C8_FalsyOptionsDropped ==
    [][\A i \in Instances :
          SaveWrote(i)
          => LET doc == get_config(storage', cfg[i], cfg[i].level)
             IN \A e \in FalsyOptions(SaveLayer(cfg[i])) :
                   ~(e[1] \in DOMAIN doc /\ e[2] \in DOMAIN doc[e[1]])]_vars

(* C8 amended: save() filters the top-level entries of the raw layer only. *)
(* An option of a raw section whose value is 0, False or "" is in the      *)
(* document save() writes, with that value, also beside truthy options.    *)
C8_FalsyOptionsPersisted ==
    [][\A i \in Instances :
          SaveWrote(i)
          => LET doc == get_config(storage', cfg[i], cfg[i].level)
             IN \A e \in FalsyOptions(SaveLayer(cfg[i])) :
                   /\ e[1] \in DOMAIN doc
                   /\ e[2] \in DOMAIN doc[e[1]]
                   /\ doc[e[1]][e[2]] = e[3]]_vars

\* The saved system section holds res = 0 beside the truthy env mapping.
C8_Witness ==
    /\ last.op = "save" /\ last.wrote /\ last.i = 1
    /\ cfg[1].level = SYSTEM
    /\ SYSTEM \in DOMAIN storage[system_config_path]
    /\ DOMAIN storage[system_config_path][SYSTEM] = {"res", "env"}
    /\ storage[system_config_path][SYSTEM]["res"] = Scalar("0")
    /\ Truthy(storage[system_config_path][SYSTEM]["env"])

(* C9: for a Game-level resolver with runner identifier r whose views were *)
(* just computed, runner_config[k] is the value of k in the game layer's   *)
(* section r if present, else in the runner layer's section r if present,  *)
(* else the Runner default of k if any, else k is absent; and right after  *)
(* construction the same holds of the sections of the two resources.       *)
C9_RunnerSectionPrecedence ==
    \A i \in Instances :
        (Cascaded(i) /\ cfg[i].level = GAME /\ cfg[i].runner_slug # NONE)
        => LET c == cfg[i]
               r == c.runner_slug
               defaults == get_defaults(RUNNER, r)
           IN /\ Precedence(c.runner_config, SectionOf(c.game_level, r), SectionOf(c.runner_level, r), defaults)
              /\ last.op = "construct"
                 => Precedence(c.runner_config,
                               SectionOf(get_config(storage, c, GAME), r),
                               SectionOf(get_config(storage, c, RUNNER), r),
                               defaults)

\* fullscreen is False in the runner resource, True in the game resource, and
\* nogui comes from the defaults alone.
C9_Witness ==
    /\ Cascaded(1) /\ last.op = "construct" /\ cfg[1].level = GAME
    /\ path_exists(storage, runner_config_path(RunnerSlug))
    /\ path_exists(storage, game_config_path(GameConfigId))
    /\ SectionOf(storage[runner_config_path(RunnerSlug)], RunnerSlug) = [o \in {"fullscreen"} |-> Scalar("False")]
    /\ SectionOf(storage[game_config_path(GameConfigId)], RunnerSlug) = [o \in {"fullscreen"} |-> Scalar("True")]
    /\ cfg[1].runner_config["fullscreen"] = Scalar("True")
    /\ cfg[1].runner_config["nogui"] = Scalar("True")

(* C10: a resolver constructed with the identifiers its level requires     *)
(* while no resource exists has views equal to the defaults, and the       *)
(* construction writes nothing.                                            *)
C10_NoResourcesGiveDefaults ==
    [][(/\ last'.op = "construct"
        /\ DOMAIN storage = {}
        /\ LET level == NewConfig(last'.runner_slug, last'.game_config_id, last'.level).level
           IN /\ level = GAME => last'.game_config_id # NONE
              /\ level = RUNNER => last'.runner_slug # NONE)
       => /\ storage' = storage
          /\ last'.raised = NONE
          /\ LET c == cfg'[last'.i]
             IN /\ c.alive
                /\ c.system_config = get_defaults(SYSTEM, c.runner_slug)
                /\ c.level \in {RUNNER, GAME} => c.runner_config = get_defaults(RUNNER, c.runner_slug)
                /\ c.level = GAME => c.game_config = get_defaults(GAME, c.runner_slug)]_vars

(* C11: initialize_config is idempotent.  When initialize_config() is      *)
(* called on a resolver right after an initialize_config() of the same     *)
(* resolver, with storage unchanged and no mutation in between, the three  *)
(* cascaded views and the three raw layers after the second call are those *)
(* after the first.                                                        *)
C11_InitializeConfigIdempotent ==
    [][\A i \in Instances :
          (/\ last.op = "initialize_config" /\ last.i = i /\ last.raised = NONE
           /\ last'.op = "initialize_config" /\ last'.i = i
           /\ storage' = storage)
          => /\ last'.raised = NONE
             /\ \A level \in ConfigLevel :
                   /\ View(cfg'[i], level) = View(cfg[i], level)
                   /\ Layer(cfg'[i], level) = Layer(cfg[i], level)]_vars

(* C12: remove() deletes the game resource of the resolver's game-config   *)
(* identifier when it exists and leaves storage as it is otherwise, also   *)
(* when there is no game-config identifier; it does not raise, and every   *)
(* other resource (system, runner, other games) is unchanged.              *)
C12_RemoveFrame ==
    [][\A i \in Instances :
          (last'.op = "remove" /\ last'.i = i)
          => LET path == game_config_path(cfg[i].game_config_id)
             IN /\ last'.raised = NONE
                /\ path_exists(storage, path) => DOMAIN storage' = DOMAIN storage \ {path}
                /\ ~path_exists(storage, path) => storage' = storage
                /\ \A p \in DOMAIN storage \ {path} :
                      p \in DOMAIN storage' /\ storage'[p] = storage[p]]_vars

\* remove() deleted the resolver's game resource; the system resource, the
\* runner resource and the other game resource are there as they were.
C12_Witness ==
    /\ last.op = "remove" /\ last.wrote /\ last.i = 1
    /\ cfg[1].game_config_id = GameConfigId
    /\ game_config_path(GameConfigId) \notin DOMAIN storage
    /\ storage = (game_config_path(OtherGameConfigId) :> OtherGameDoc)
                  @@ (system_config_path :> SystemDoc)
                  @@ (runner_config_path(RunnerSlug) :> RunnerDoc)

(* C13: save() on a Game-level resolver without game-config identifier or  *)
(* a Runner-level resolver without runner identifier (the path of its      *)
(* resource is None) does not raise, writes nothing, and leaves the raw    *)
(* layers, the shortcuts and the cascaded views as they were (no reload).  *)
C13_UnresolvableSaveIsNoOp ==
    [][\A i \in Instances :
          (/\ last'.op = "save" /\ last'.i = i
           /\ cfg[i].level \in {GAME, RUNNER}
           /\ config_path(cfg[i], cfg[i].level) = NONE)
          => /\ last'.raised = NONE
             /\ ~last'.wrote
             /\ storage' = storage
             /\ cfg'[i] = cfg[i]]_vars

\* A Game-level resolver without game-config identifier was saved with an
\* unsaved vsync = False in its raw system section: the view, not reloaded,
\* still has the default.
C13_Witness ==
    /\ last.op = "save" /\ ~last.wrote /\ last.raised = NONE /\ last.i = 1
    /\ cfg[1].level = GAME /\ cfg[1].game_config_id = NONE
    /\ "vsync" \in DOMAIN cfg[1].raw_system_config
    /\ cfg[1].raw_system_config["vsync"] = Scalar("False")
    /\ cfg[1].system_config["vsync"] = Scalar("True")

(* C14: get_config(x) with x outside ConfigLevel raises ValueError before  *)
(* anything is read, and save() on a resolver whose level is outside       *)
(* ConfigLevel raises ValueError; neither changes storage or the instance. *)
C14_InvalidLevelRaises ==
    [][\A i \in Instances :
          /\ (last'.op = "get_config" /\ last'.i = i /\ last'.level \notin ConfigLevel)
             => /\ last'.raised = "ValueError"
                /\ last'.reads = {}
                /\ storage' = storage
                /\ cfg' = cfg
          /\ (last'.op = "save" /\ last'.i = i /\ cfg[i].level \notin ConfigLevel)
             => /\ last'.raised = "ValueError"
                /\ ~last'.wrote
                /\ storage' = storage
                /\ cfg' = cfg]_vars

\* get_config was called with a level outside ConfigLevel while the system
\* resource exists: it raised and read nothing.
C14_Witness ==
    /\ last.op = "get_config" /\ last.level = InvalidLevel /\ last.i = 1
    /\ last.raised = "ValueError" /\ last.reads = {}
    /\ path_exists(storage, system_config_path)

(* C15: the level __init__ assigns is the level argument when one is       *)
(* given, whatever the identifiers; without one it is Game when a          *)
(* game-config identifier is given, else Runner when a runner identifier   *)
(* is given, else System.  No later call changes the level of a resolver.  *)
C15_LevelInference ==
    [][\A i \in Instances :
          /\ (last'.op = "construct" /\ last'.i = i)
             => /\ last'.assigned = IF last'.level # NONE THEN last'.level
                                    ELSE IF last'.game_config_id # NONE THEN GAME
                                    ELSE IF last'.runner_slug # NONE THEN RUNNER
                                    ELSE SYSTEM
                /\ cfg'[i].alive => cfg'[i].level = last'.assigned
          /\ (cfg[i].alive /\ cfg'[i].alive /\ last'.op # "construct")
             => cfg'[i].level = cfg[i].level]_vars

\* Both identifiers and no level were given: the resolver is of Game level.
C15_Witness ==
    /\ last.op = "construct" /\ last.i = 1 /\ last.level = NONE
    /\ last.runner_slug = RunnerSlug /\ last.game_config_id = GameConfigId
    /\ cfg[1].alive /\ cfg[1].level = GAME

(* C16: get_defaults does not fail on a default that raises.  For every    *)
(* option list, with the descriptor of a name being its last occurrence:   *)
(* a name with a literal default is mapped to the literal, a name whose    *)
(* callable default returns is mapped to the value returned, and a name is *)
(* left out exactly when it has no default or its callable raises; the     *)
(* entries of the other names are what they are without the raising one.   *)
C16_DefaultsNeverFail ==
    last.op = "get_defaults"
    => LET names == {option_list[j].option : j \in DOMAIN option_list}
           descriptor(n) ==
               option_list[CHOOSE j \in DOMAIN option_list :
                          /\ option_list[j].option = n
                          /\ \A l \in DOMAIN option_list : option_list[l].option = n => l <= j]
       IN /\ last.raised = NONE
          /\ DOMAIN last.result \subseteq names
          /\ \A n \in names :
                LET d == descriptor(n)
                IN IF d.has_default /\ ~(d.callable /\ d.raises)
                   THEN n \in DOMAIN last.result /\ last.result[n] = d.default
                   ELSE n \notin DOMAIN last.result

\* The default of vsync raises and res has a literal default: the result is
\* the entry of res alone.
C16_Witness ==
    /\ last.op = "get_defaults" /\ last.raised = NONE
    /\ option_list = << OptCallable("vsync", "auto", TRUE), OptDefault("res", "True") >>
    /\ last.result = ("res" :> Scalar("True"))

(* C17: storage changes only in a save() or a remove(): the constructor,   *)
(* initialize_config, update_cascaded_config, update_raw_config,           *)
(* get_config and get_defaults leave every resource as it is.  A save()    *)
(* changes no resource but the one of the resolver's level, whatever the   *)
(* raw layers of the other levels hold in memory.                          *)
C17_OnlySaveAndRemoveWrite ==
    [][/\ storage' # storage => last'.op \in {"save", "remove"}
       /\ \A i \in Instances :
             (last'.op = "save" /\ last'.i = i)
             => LET own == IF cfg[i].level \in ConfigLevel
                           THEN {config_path(cfg[i], cfg[i].level)}
                           ELSE {}
                IN \A p \in (DOMAIN storage \cup DOMAIN storage') \ own :
                      /\ p \in DOMAIN storage
                      /\ p \in DOMAIN storage'
                      /\ storage'[p] = storage[p]]_vars

\* A Runner-level save wrote the runner resource while the system layer held
\* in memory differs from the system resource, which is as it was.
C17_Witness ==
    /\ last.op = "save" /\ last.wrote /\ last.i = 1
    /\ cfg[1].level = RUNNER
    /\ path_exists(storage, system_config_path)
    /\ storage[system_config_path] = SystemDoc
    /\ Entries(cfg[1].system_level) # Entries(SystemDoc)
    /\ path_exists(storage, runner_config_path(RunnerSlug))

\* The options that have a default and that no resource and no caller sets.
DefaultOnlyOptions == {"nofullscreen", "nogui", "fastboot", "slowboot", "nocontroller", "settings"}

\* The env pairs of the resources of the levels below the level of path p.
LowerEnvPairs(p) ==
    IF p = system_config_path THEN {}
    ELSE IF p = runner_config_path(RunnerSlug) THEN {<<"A", "1">>}
    ELSE {<<"A", "1">>, <<"B", "2">>}

\* No stored document holds an option that only the defaults have, or an env
\* pair that only a lower level has.
NothingCascadedInStorage ==
    \A p \in DOMAIN storage : \A e \in Entries(storage[p]) :
        /\ e[2] \notin DefaultOnlyOptions
        /\ e[2] = "env"
           => \A pair \in LowerEnvPairs(p) :
                 ~(pair[1] \in DOMAIN e[3].map /\ e[3].map[pair[1]] = pair[2])

(* C18: cascaded views are never persisted.  The document a save() writes  *)
(* for level L holds only option entries of the raw layer of L; a call     *)
(* that is no edit of the caller puts into the raw layer of L no entry     *)
(* that is not in the resource of L (a constructor: none but those of the  *)
(* resource); so a stored document never holds an option that only the     *)
(* defaults have, nor an env pair that only a lower level has.             *)
C18_ViewsNeverPersisted ==
    /\ []NothingCascadedInStorage
    /\ [][\A i \in Instances :
             LET c == cfg[i]
                 d == cfg'[i]
             IN /\ SaveWrote(i)
                   => Entries(get_config(storage', c, c.level)) \subseteq Entries(Layer(c, c.level))
                /\ (/\ d.alive /\ last'.i = i
                    /\ last'.op \in {"construct", "initialize_config", "save",
                                      "update_cascaded_config", "update_raw_config"})
                   => Entries(Layer(d, d.level))
                        \subseteq (IF last'.op = "construct" THEN {} ELSE Entries(Layer(c, c.level)))
                                   \cup Entries(get_config(storage', d, d.level))]_vars

\* A Game-level save after the caller set vsync = False: system_config has
\* the env of the runner resource and runner_config the default of nogui;
\* the stored game document has the caller's entry and neither of them.
C18_Witness ==
    /\ last.op = "save" /\ last.wrote /\ last.i = 1
    /\ cfg[1].level = GAME
    /\ EnvOf(cfg[1].system_config) = B2
    /\ "nogui" \in DOMAIN cfg[1].runner_config
    /\ path_exists(storage, game_config_path(GameConfigId))
    /\ SectionOf(storage[game_config_path(GameConfigId)], SYSTEM) = ("vsync" :> Scalar("False"))
    /\ "nogui" \notin DOMAIN SectionOf(storage[game_config_path(GameConfigId)], RunnerSlug)

(* C19: every identifier write_game_config or duplicate_game_config        *)
(* returns has the form slug-timestamp and is the identifier of no game    *)
(* resource that exists already (so of none returned earlier): no existing *)
(* resource is overwritten, a duplicate does not get the identifier of its *)
(* source, and the resource of the duplicate is the source resource, which *)
(* is unchanged.                                                           *)
C19_GeneratedIdsUnique ==
    [][(last'.op \in {"write_game_config", "duplicate_game_config"} /\ last'.raised = NONE)
       => /\ \E game_slug \in GameSlugs :
                last'.new_id = game_slug \o "-" \o ToString(clock \div TicksPerSecond)
          /\ game_config_path(last'.new_id) \notin DOMAIN storage
          /\ game_config_path(last'.new_id) \in DOMAIN storage'
          /\ \A p \in DOMAIN storage : p \in DOMAIN storage' /\ storage'[p] = storage[p]
          /\ last'.op = "duplicate_game_config"
             => /\ last'.new_id # last'.game_config_id
                /\ storage'[game_config_path(last'.new_id)]
                      = storage[game_config_path(last'.game_config_id)]]_vars

\* No other resolver alive has the level and the resource of resolver i.
SoleWriter(i) ==
    \A k \in Instances \ {i} :
        ~(/\ cfg[k].alive
          /\ cfg[k].level = cfg[i].level
          /\ config_path(cfg[k], cfg[k].level) = config_path(cfg[i], cfg[i].level))

(* C20: save() replaces the resource by the filtered raw layer of the      *)
(* saving resolver and does not read storage first: an option entry of the *)
(* stored document that the saving resolver does not hold is not in the    *)
(* document afterwards, so the option another resolver of the same level   *)
(* and identifier saved in between is lost.  When no other resolver of the *)
(* same level and identifier is alive, a save() removes from the stored    *)
(* document no entry but those the caller edited through the resolver      *)
(* since it loaded.                                                        *)
C20_LostUpdate ==
    [][\A i \in Instances :
          SaveWrote(i)
          => LET before == Entries(get_config(storage, cfg[i], cfg[i].level))
                 after == Entries(get_config(storage', cfg[i], cfg[i].level))
             IN /\ \A e \in before :
                      e \notin Entries(Layer(cfg[i], cfg[i].level)) => e \notin after
                /\ SoleWriter(i)
                   => \A e \in before : e \in after \/ <<e[1], e[2]>> \in pending[i]]_vars

\* Two System-level resolvers: the first saved vsync = False, the second,
\* loaded before that save, then set res = 0 and saved: system.yml held
\* vsync before the second save and holds res without vsync after it.
C20_Witness ==
    /\ last.op = "save" /\ last.wrote /\ last.i = 2
    /\ cfg[1].alive /\ cfg[1].level = SYSTEM /\ cfg[2].level = SYSTEM
    /\ SectionOf(last.overwrote, SYSTEM) = ("vsync" :> Scalar("False"))
    /\ cfg[1].raw_system_config = ("vsync" :> Scalar("False"))
    /\ storage[system_config_path] = (SYSTEM :> ("res" :> Scalar("0")))

\* The level contributes its system section to system_config of c.
Contributes(c, level) ==
    \/ level = SYSTEM
    \/ level = RUNNER /\ c.level \in {RUNNER, GAME} /\ c.runner_slug # NONE
    \/ level = GAME /\ c.level = GAME /\ c.runner_slug # NONE

\* For every option k but env, view[k] is the value of the first of the
\* mappings of sources that has k, and k is absent when none has it.
FirstDefiningWins(view, sources) ==
    \A k \in (DOMAIN view \cup UNION {DOMAIN sources[j] : j \in DOMAIN sources}) \ {"env"} :
        /\ k \in DOMAIN view
        /\ \E j \in DOMAIN sources :
              /\ k \in DOMAIN sources[j]
              /\ \A l \in 1..(j - 1) : k \notin DOMAIN sources[l]
              /\ view[k] = sources[j][k]

(* C21: for a resolver whose views were just computed and every option k   *)
(* but env, system_config[k] is the value of k in the first that has k of:  *)
(* the game layer's system section (Game level with runner identifier), the *)
(* runner layer's system section (Runner or Game level with runner          *)
(* identifier), the system layer's system section, defaults(System); k is   *)
(* absent when none has it.  Right after construction the same holds of the *)
(* system sections of the three resources.                                  *)
C21_SystemSectionPrecedence ==
    \A i \in Instances :
        (/\ cfg[i].alive /\ last.i = i /\ last.raised = NONE
         /\ \/ last.op \in {"construct", "initialize_config", "update_cascaded_config"}
            \/ last.op = "save" /\ last.wrote)
        => LET c == cfg[i]
               section(doc, level) == IF Contributes(c, level) THEN SectionOf(doc, SYSTEM) ELSE EmptyDict
               defaults == get_defaults(SYSTEM, c.runner_slug)
           IN /\ FirstDefiningWins(c.system_config,
                                   << section(c.game_level, GAME), section(c.runner_level, RUNNER),
                                      section(c.system_level, SYSTEM), defaults >>)
              /\ last.op = "construct"
                 => FirstDefiningWins(c.system_config,
                                      << section(get_config(storage, c, GAME), GAME),
                                         section(get_config(storage, c, RUNNER), RUNNER),
                                         section(get_config(storage, c, SYSTEM), SYSTEM),
                                         defaults >>)

\* A Game-level resolver was constructed while the system and the runner
\* resource define res and vsync and the game resource vsync alone: res is
\* the runner's value, vsync the game's.
C21_Witness ==
    /\ last.op = "construct" /\ last.i = 1 /\ cfg[1].alive /\ cfg[1].level = GAME
    /\ DOMAIN storage = {OwnPath(l) : l \in ConfigLevel}
    /\ storage[OwnPath(SYSTEM)] = OwnDoc(SYSTEM, {"res", "vsync", "env"})
    /\ storage[OwnPath(RUNNER)] = OwnDoc(RUNNER, {"res", "vsync", "env"})
    /\ storage[OwnPath(GAME)] = OwnDoc(GAME, {"vsync"})
    /\ cfg[1].system_config["res"] = OwnValue(RUNNER, "res")
    /\ cfg[1].system_config["vsync"] = OwnValue(GAME, "vsync")

(* C22: computing the cascaded views changes no raw option value.  After   *)
(* update_cascaded_config() the three raw layers have the option entries    *)
(* they had before the call; after a constructor, an initialize_config() or *)
(* a save() that wrote, they have the entries they had when the resources   *)
(* were loaded, before the views were computed.  Sections may be added as   *)
(* empty mappings.                                                          *)
C22_CascadeLeavesRawValues ==
    [][\A i \in Instances :
          (/\ last'.i = i /\ last'.raised = NONE /\ cfg'[i].alive
           /\ \/ last'.op \in {"construct", "initialize_config", "update_cascaded_config"}
              \/ last'.op = "save" /\ last'.wrote)
          => LET before == IF last'.op = "update_cascaded_config" THEN cfg[i]
                           ELSE IF last'.op = "construct"
                           THEN LoadLayers(storage', NewConfig(last'.runner_slug, last'.game_config_id, last'.level))
                           ELSE LoadLayers(storage', cfg[i])
             IN \A level \in ConfigLevel :
                   Entries(Layer(cfg'[i], level)) = Entries(Layer(before, level))]_vars

(* C23: remove() changes nothing in memory: the raw layers, the shortcuts   *)
(* and the cascaded views of the resolver are after the call what they were *)
(* before.  A save() of a Game-level resolver whose game resource does not  *)
(* exist (removed before) does not raise and creates the resource with the  *)
(* option entries of the raw game layer held in memory; the document is not *)
(* empty when the layer has a non-empty section.                            *)
C23_RemoveKeepsMemory ==
    [][\A i \in Instances :
          /\ (last'.op = "remove" /\ last'.i = i) => cfg'[i] = cfg[i]
          /\ (/\ last'.op = "save" /\ last'.i = i
              /\ cfg[i].level = GAME
              /\ cfg[i].game_config_id # NONE
              /\ ~path_exists(storage, game_config_path(cfg[i].game_config_id)))
             => LET path == game_config_path(cfg[i].game_config_id)
                IN /\ last'.raised = NONE
                   /\ last'.wrote
                   /\ path_exists(storage', path)
                   /\ Entries(storage'[path]) = Entries(cfg[i].game_level)
                   /\ (\E key \in DOMAIN cfg[i].game_level : DictTruthy(cfg[i].game_level[key]))
                      => storage'[path] # EmptyDict]_vars

\* A Game-level resolver loaded the game resource, removed it and saved:
\* the resource is there again with the document it had, while the game
\* layer and the game view still hold main_file.
C23_Witness ==
    /\ last.op = "save" /\ last.wrote /\ last.i = 1 /\ last.after_remove
    /\ last.overwrote = EmptyDict
    /\ cfg[1].level = GAME /\ cfg[1].game_config_id = GameConfigId
    /\ path_exists(storage, game_config_path(GameConfigId))
    /\ storage[game_config_path(GameConfigId)] = GameDoc
    /\ cfg[1].raw_game_config = GameDoc[GAME]
    /\ cfg[1].game_config["main_file"] = Scalar("rom.bin")

====
